---- MODULE Spec2Model ----
(***************************************************************************)
(* Model of bangre/app.py (Flask + SQLAlchemy on sqlite:///site.db) served *)
(* by the two sync gunicorn workers of bangre/gunicorn_config.py.          *)
(*                                                                         *)
(* Strings the code inspects character by character (filenames, category   *)
(* names) are sequences of one-character strings; strings the code only    *)
(* compares as a whole (title, password) are TLA+ strings.  A character    *)
(* outside ASCII is written as its code point: "U+00E9" is e-acute,        *)
(* "U+00C9" is E-acute, "U+65E5" is a CJK ideograph.                       *)
(***************************************************************************)
EXTENDS Integers, Sequences, FiniteSets, TLC

\* ------------------------------------------------------------------------
\* Characters and the str methods the code calls
\* ------------------------------------------------------------------------

UpperChars ==
  <<"A","B","C","D","E","F","G","H","I","J","K","L","M",
    "N","O","P","Q","R","S","T","U","V","W","X","Y","Z">>

LowerChars ==
  <<"a","b","c","d","e","f","g","h","i","j","k","l","m",
    "n","o","p","q","r","s","t","u","v","w","x","y","z">>

Digits == {"0","1","2","3","4","5","6","7","8","9"}

Range(s) == {s[i] : i \in DOMAIN s}

\* str.lower() on one character
LowerChar(c) ==
  IF \E i \in DOMAIN UpperChars : UpperChars[i] = c
  THEN LowerChars[CHOOSE i \in DOMAIN UpperChars : UpperChars[i] = c]
  ELSE IF c = "U+00C9" THEN "U+00E9" ELSE c

\* str.lower()
lower(s) == [i \in DOMAIN s |-> LowerChar(s[i])]

\* '.' in filename
HasDot(s) == \E i \in DOMAIN s : s[i] = "."

\* index of the last '.', 0 when there is none
LastDot(s) ==
  IF HasDot(s)
  THEN CHOOSE i \in DOMAIN s : s[i] = "." /\ \A j \in DOMAIN s : j > i => s[j] # "."
  ELSE 0

\* filename.rsplit('.', 1)[1], for a filename that holds a '.'
rsplit_ext(s) == SubSeq(s, LastDot(s) + 1, Len(s))

\* characters str.split() and str.strip() treat as whitespace
Whitespace == {" ", "\t"}

IsSpace(c) == c \in Whitespace

RECURSIVE LStrip(_, _)
LStrip(s, chars) ==
  IF s # <<>> /\ Head(s) \in chars THEN LStrip(Tail(s), chars) ELSE s

RECURSIVE RStrip(_, _)
RStrip(s, chars) ==
  IF s # <<>> /\ s[Len(s)] \in chars
  THEN RStrip(SubSeq(s, 1, Len(s) - 1), chars) ELSE s

\* str.strip()
strip(s) == RStrip(LStrip(s, Whitespace), Whitespace)

\* ------------------------------------------------------------------------
\* Configuration (app.py:10-25, gunicorn_config.py)
\* ------------------------------------------------------------------------

\* the keys and values of the ALLOWED_EXTENSIONS dict
ALLOWED_EXTENSIONS ==
  ( <<"p","d","f">>     :> "pdf"   ) @@
  ( <<"j","p","g">>     :> "image" ) @@
  ( <<"j","p","e","g">> :> "image" ) @@
  ( <<"p","n","g">>     :> "image" ) @@
  ( <<"g","i","f">>     :> "image" ) @@
  ( <<"w","e","b","p">> :> "image" ) @@
  ( <<"m","p","4">>     :> "video" ) @@
  ( <<"a","v","i">>     :> "video" ) @@
  ( <<"m","o","v">>     :> "video" ) @@
  ( <<"m","k","v">>     :> "video" ) @@
  ( <<"w","e","b","m">> :> "video" )

\* os.environ.get('ADMIN_PASSWORD', '@dmin123') with the variable unset
ADMIN_PASSWORD == "@dmin123"

\* number of gunicorn worker processes
workers == 2

\* get_file_type_from_ext returns None
None == "None"

\* ------------------------------------------------------------------------
\* Utility functions (app.py:55-66) and werkzeug's secure_filename
\* ------------------------------------------------------------------------

allowed_file(filename) ==
  HasDot(filename) /\ lower(rsplit_ext(filename)) \in DOMAIN ALLOWED_EXTENSIONS

get_file_type_from_ext_no_webp(ext0) ==
  LET ext == lower(ext0) IN
    IF ext = <<"p","d","f">> THEN "pdf"
    ELSE IF ext \in { <<"j","p","g">>, <<"j","p","e","g">>, <<"p","n","g">>,
                      <<"g","i","f">> } THEN "image"
    ELSE IF ext \in { <<"m","p","4">>, <<"a","v","i">>, <<"m","o","v">>,
                      <<"m","k","v">>, <<"w","e","b","m">> } THEN "video"
    ELSE None

get_file_type_from_ext(ext0) ==
  LET ext == lower(ext0) IN
    IF ext = <<"p","d","f">> THEN "pdf"
    ELSE IF ext \in { <<"j","p","g">>, <<"j","p","e","g">>, <<"p","n","g">>,
                      <<"g","i","f">>, <<"w","e","b","p">> } THEN "image"
    ELSE IF ext \in { <<"m","p","4">>, <<"a","v","i">>, <<"m","o","v">>,
                      <<"m","k","v">>, <<"w","e","b","m">> } THEN "video"
    ELSE None

\* unicodedata.normalize("NFKD", c).encode("ascii", "ignore") on one character
AsciiFold(c) ==
  IF c = "U+00E9" THEN <<"e">>
  ELSE IF c = "U+00C9" THEN <<"E">>
  ELSE IF c = "U+65E5" THEN <<>>
  ELSE <<c>>

RECURSIVE AsciiFoldAll(_)
AsciiFoldAll(s) ==
  IF s = <<>> THEN <<>> ELSE AsciiFold(Head(s)) \o AsciiFoldAll(Tail(s))

\* filename.replace(os.sep, " ") on Linux (os.path.altsep is None)
ReplaceSep(s) == [i \in DOMAIN s |-> IF s[i] = "/" THEN " " ELSE s[i]]

\* "_".join(s.split()) for a string without leading or trailing whitespace
RECURSIVE JoinWords(_)
JoinWords(s) ==
  IF s = <<>> THEN <<>>
  ELSE IF IsSpace(Head(s))
       THEN <<"_">> \o JoinWords(LStrip(s, Whitespace))
       ELSE <<Head(s)>> \o JoinWords(Tail(s))

\* the characters _filename_ascii_strip_re = [^A-Za-z0-9_.-] keeps
IsSafeChar(c) ==
  \/ c \in Range(UpperChars) \/ c \in Range(LowerChars) \/ c \in Digits
  \/ c \in {"_", ".", "-"}

\* werkzeug.utils.secure_filename
secure_filename(filename) ==
  LET ascii  == AsciiFoldAll(filename)
      joined == JoinWords(strip(ReplaceSep(ascii)))
      kept   == SelectSeq(joined, IsSafeChar)
  IN  RStrip(LStrip(kept, {".", "_"}), {".", "_"})

\* ------------------------------------------------------------------------
\* Bounds and the inputs requests are drawn from
\* ------------------------------------------------------------------------

\* uploads that reach file.save over one behaviour
MaxUploads == 2

W == 1 .. workers

Sessions == {"s1", "s2"}

Passwords == {ADMIN_PASSWORD, "admin"}

\* "Général", the name of the seeded category
General == <<"G","U+00E9","n","U+00E9","r","a","l">>

\* "général"
LowerGeneral == <<"g","U+00E9","n","U+00E9","r","a","l">>

\* values of the form field new_category
CategoryNames ==
  { General, <<" ">> \o General \o <<" ">>, LowerGeneral,
    <<" ">> \o LowerGeneral, <<>>, <<" ">> }

\* a form field or query parameter: <<>> when missing or empty, <<v>> otherwise
Absent == <<>>

DocPdf      == <<"d","o","c",".","p","d","f">>
SlashDocPdf == <<"/","d","o","c",".","p","d","f">>
DotPdf      == <<".","p","d","f">>
MalwareExe  == <<"m","a","l","w","a","r","e",".","e","x","e">>
Readme      == <<"R","E","A","D","M","E">>

\* upload forms <<title, category, file>>; category 1 is the seeded category,
\* no category has id 9; file is missing, or a FileStorage with this filename
UploadForms ==
  { <<"Report", <<1>>, <<DocPdf>>>>,
    <<"Report", <<1>>, <<SlashDocPdf>>>>,
    <<"Report", <<9>>, <<DotPdf>>>>,
    <<"",       <<1>>, <<DocPdf>>>>,
    <<"Report", Absent, <<DocPdf>>>>,
    <<"Report", <<1>>, Absent>>,
    <<"Report", <<1>>, <<MalwareExe>>>>,
    <<"Report", <<1>>, <<Readme>>>> }

ResourceIds == 1 .. (MaxUploads + 1)

CategoryFilters == {Absent, <<1>>, <<9>>}

TypeFilters == {Absent, <<"pdf">>, <<"image">>, <<"exe">>}

\* ------------------------------------------------------------------------
\* State
\* ------------------------------------------------------------------------

VARIABLES
  categories,   \* table category: set of [id, name]
  resources,    \* table resource: set of rows (uid and ext are history: the
                \*   upload's serial number and the extension it was typed by)
  files,        \* names of the files in UPLOAD_FOLDER
  admin,        \* admin[s]: session['admin'] in the cookie of session s
  wk,           \* wk[w]: what worker process w is doing
  authedBy,     \* history: the password of the login that set admin[s]
  nextUid,      \* history: serial number of the next upload that saves a file
                \*   (a row's uid tells it from a later row with the same id)
  deleted,      \* history: the rows delete_resource looked up and deleted:
                \*   [uid, id, reused: a later row received the id]
  probe         \* input and results of the utility functions (SpecUtil)

vars == << categories, resources, files, admin, wk, authedBy, nextUid,
           deleted, probe >>

\* a row of table resource never read by a request
NoRow ==
  [ id |-> 0, uid |-> 0, ext |-> <<>>, title |-> "", filename |-> <<>>,
    file_type |-> "", category_id |-> 0 ]

\* a worker between requests; the other fields are the locals of the handler
Idle ==
  [ pc |-> "idle", session |-> "", name |-> <<>>, title |-> "",
    category_id |-> 0, ext |-> <<>>, filename |-> <<>>, file_type |-> "",
    uid |-> 0,
    row |-> NoRow, existed |-> FALSE, resaved |-> FALSE, outcome |-> "" ]

NoProbe == [ name |-> <<>>, step |-> "", result |-> "" ]

Max(S) == CHOOSE x \in S : \A y \in S : y <= x

\* the rowid SQLite gives a row inserted without an id into a table whose
\* INTEGER PRIMARY KEY has no AUTOINCREMENT: one more than the largest in use
NextId(rows) == IF rows = {} THEN 1 ELSE Max({r.id : r \in rows}) + 1

unique_name_violation_never(name) == FALSE

\* UNIQUE constraint of category.name: the insert raises IntegrityError
unique_name_violation(name) == \E c \in categories : c.name = name

session_admin_unchecked(s) == TRUE

\* session.get('admin')
session_admin(s) == admin[s]

\* Category.query.filter_by(name=name).first() finds a row
category_exists(name) == \E c \in categories : c.name = name

\* Category.query.all()
list_categories == categories

\* Resource.query.get_or_404(resource_id): the rows with that id (none: 404)
get_resource(id) == {r \in resources : r.id = id}

\* index(): Resource.query, filtered by category_id when cat is given
index(cat) ==
  IF cat # Absent THEN {r \in resources : r.category_id = cat[1]} ELSE resources

\* admin(): Resource.query, filtered by file_type for a known type
admin_listing(type) ==
  IF type \in {<<"pdf">>, <<"image">>, <<"video">>}
  THEN {r \in resources : r.file_type = type[1]}
  ELSE resources

\* send_from_directory(UPLOAD_FOLDER, filename): the file, or 404
send_from_directory(filename) ==
  IF filename \in files THEN "File" ELSE "NotFound"

\* download() and view(): the same lookup and file, another disposition
download(id) ==
  IF get_resource(id) = {} THEN "NotFound"
  ELSE send_from_directory((CHOOSE r \in get_resource(id) : TRUE).filename)

view(id) ==
  IF get_resource(id) = {} THEN "NotFound"
  ELSE send_from_directory((CHOOSE r \in get_resource(id) : TRUE).filename)

Handling(w) == wk[w].pc \notin {"boot", "seed_commit", "crashed", "idle"}

\* a session sends one request at a time
InFlight(s) == \E w \in W : Handling(w) /\ wk[w].session = s

Ready(w, s) == wk[w].pc = "idle" /\ ~InFlight(s)

\* the handler has its outcome (a flash message, a redirect, an exception)
\* and what is left is the response
Done(w, s, outcome) ==
  wk' = [wk EXCEPT ![w] = [Idle EXCEPT !.pc = "respond", !.session = s,
                                       !.outcome = outcome]]

\* the handler goes on at pc with the locals rec
Goto(w, pc, rec) ==
  wk' = [wk EXCEPT ![w] = [rec EXCEPT !.pc = pc]]

\* the response is sent: the worker takes the next request
Respond(w) ==
  /\ wk[w].pc = "respond"
  /\ wk' = [wk EXCEPT ![w] = Idle]
  /\ UNCHANGED << categories, resources, files, admin, authedBy, nextUid,
                  deleted, probe >>

Init ==
  /\ categories = {}
  /\ resources = {}
  /\ files = {}
  /\ admin = [s \in Sessions |-> FALSE]
  /\ wk = [w \in W |-> [Idle EXCEPT !.pc = "boot"]]
  /\ authedBy = [s \in Sessions |-> ""]
  /\ nextUid = 1
  /\ deleted = {}
  /\ probe = NoProbe

\* ------------------------------------------------------------------------
\* Process start: the module-level bootstrap (app.py:46-52)
\* ------------------------------------------------------------------------

\* if not Category.query.first()
Boot(w) ==
  /\ wk[w].pc = "boot"
  /\ IF categories = {}
     THEN Goto(w, "seed_commit", [Idle EXCEPT !.name = General])
     ELSE wk' = [wk EXCEPT ![w] = Idle]
  /\ UNCHANGED << categories, resources, files, admin, authedBy, nextUid,
                  deleted, probe >>

\* db.session.add(Category(name="Général")); db.session.commit()
SeedCommit(w) ==
  /\ wk[w].pc = "seed_commit"
  /\ IF unique_name_violation(wk[w].name)
     THEN /\ wk' = [wk EXCEPT ![w] = [Idle EXCEPT !.pc = "crashed"]]
          /\ UNCHANGED categories
     ELSE /\ categories' = categories \cup
                 {[id |-> NextId(categories), name |-> wk[w].name]}
          /\ wk' = [wk EXCEPT ![w] = Idle]
  /\ UNCHANGED << resources, files, admin, authedBy, nextUid, deleted, probe >>

\* gunicorn starts the worker process again: after a crash, or when the
\* service is restarted while no request is being handled
Restart(w) ==
  /\ wk[w].pc \in {"idle", "crashed"}
  /\ \A v \in W : ~Handling(v)
  /\ wk' = [wk EXCEPT ![w] = [Idle EXCEPT !.pc = "boot"]]
  /\ UNCHANGED << categories, resources, files, admin, authedBy, nextUid,
                  deleted, probe >>

\* ------------------------------------------------------------------------
\* Public routes (app.py:70-98)
\* ------------------------------------------------------------------------

Index(w, cat) ==
  /\ wk[w].pc = "idle"
  /\ index(cat) \subseteq resources
  /\ UNCHANGED vars

Download(w, id) ==
  /\ wk[w].pc = "idle"
  /\ download(id) \in {"File", "NotFound"}
  /\ UNCHANGED vars

View(w, id) ==
  /\ wk[w].pc = "idle"
  /\ view(id) \in {"File", "NotFound"}
  /\ UNCHANGED vars

\* ------------------------------------------------------------------------
\* Login and logout (app.py:101-113)
\* ------------------------------------------------------------------------

password_ok_any(password) == TRUE

\* request.form['password'] == ADMIN_PASSWORD
password_ok(password) == password = ADMIN_PASSWORD

AdminLogin(w, s, password) ==
  /\ Ready(w, s)
  /\ IF password_ok(password)
     THEN /\ admin' = [admin EXCEPT ![s] = TRUE]
          /\ authedBy' = [authedBy EXCEPT ![s] = password]
          /\ UNCHANGED wk
     ELSE UNCHANGED << admin, authedBy, wk >>
  /\ UNCHANGED << categories, resources, files, nextUid, deleted, probe >>

\* session.pop('admin', None)
AdminLogout(w, s) ==
  /\ Ready(w, s)
  /\ admin' = [admin EXCEPT ![s] = FALSE]
  /\ authedBy' = [authedBy EXCEPT ![s] = ""]
  /\ UNCHANGED << wk, categories, resources, files, nextUid, deleted, probe >>

\* ------------------------------------------------------------------------
\* Admin page (app.py:116-176)
\* ------------------------------------------------------------------------

\* GET /admin, or a POST without a known action: the listing only
AdminGet(w, s, type) ==
  /\ Ready(w, s)
  /\ (IF session_admin(s) THEN admin_listing(type) ELSE {}) \subseteq resources
  /\ UNCHANGED vars

\* action == 'create_category' up to the duplicate query (app.py:118-130, 135)
AdminCreateCategory(w, s, new_category) ==
  LET name == strip(new_category) IN
  /\ Ready(w, s)
  /\ IF ~session_admin(s) THEN Done(w, s, "RedirectLogin")
     ELSE IF name # <<>> /\ ~category_exists(name)
          THEN Goto(w, "cc_commit",
                    [Idle EXCEPT !.session = s, !.name = name])
          ELSE Done(w, s, "InvalidOrDuplicate")
  /\ UNCHANGED << categories, resources, files, admin, authedBy, nextUid,
                  deleted, probe >>

\* db.session.add(Category(name=name)); db.session.commit() (app.py:131-133)
CreateCategoryCommit(w) ==
  /\ wk[w].pc = "cc_commit"
  /\ IF unique_name_violation(wk[w].name)
     THEN /\ Done(w, wk[w].session, "IntegrityError")
          /\ UNCHANGED categories
     ELSE /\ categories' = categories \cup
                 {[id |-> NextId(categories), name |-> wk[w].name]}
          /\ Done(w, wk[w].session, "Created")
  /\ UNCHANGED << resources, files, admin, authedBy, nextUid, deleted, probe >>

all_present_but_title(title, category_id, file) ==
  category_id # Absent /\ file # Absent /\ file[1] # <<>>

\* all([title, category_id, file]); a FileStorage is true iff its filename is
all_present(title, category_id, file) ==
  title # "" /\ category_id # Absent /\ file # Absent /\ file[1] # <<>>

\* the checks of the upload branch (app.py:144-152)
upload_check(title, category_id, file) ==
  IF ~all_present(title, category_id, file) THEN "MissingField"
  ELSE IF ~allowed_file(file[1]) THEN "InvalidExtension"
  ELSE IF get_file_type_from_ext(lower(rsplit_ext(file[1]))) = None
       THEN "UnsupportedType"
       ELSE "Accepted"

\* uploads that have saved or are about to save a file
UploadsStarted ==
  (nextUid - 1) + Cardinality({w \in W : wk[w].pc = "up_save"})

\* action == 'upload_resource' up to secure_filename (app.py:118-154)
AdminUpload(w, s, title, category_id, file) ==
  LET check == upload_check(title, category_id, file) IN
  /\ Ready(w, s)
  /\ IF ~session_admin(s) THEN Done(w, s, "RedirectLogin")
     ELSE IF check # "Accepted" THEN Done(w, s, check)
     ELSE /\ UploadsStarted < MaxUploads
          /\ Goto(w, "up_save",
                  [Idle EXCEPT !.session = s, !.title = title,
                               !.category_id = category_id[1],
                               !.ext = lower(rsplit_ext(file[1])),
                               !.file_type = get_file_type_from_ext(
                                               lower(rsplit_ext(file[1]))),
                               !.filename = secure_filename(file[1])])
  /\ UNCHANGED << categories, resources, files, admin, authedBy, nextUid,
                  deleted, probe >>

\* the row Resource(title=..., filename=..., file_type=..., category_id=...)
\* as inserted: SQLite gives it its id
new_resource(w) ==
  [ id |-> NextId(resources), uid |-> wk[w].uid, ext |-> wk[w].ext,
    title |-> wk[w].title, filename |-> wk[w].filename,
    file_type |-> wk[w].file_type, category_id |-> wk[w].category_id ]

\* history: the deletes that have removed their file and not yet their row
\* see an upload store a file under the same name
NoteResaved(w) ==
  [v \in W |->
     IF v # w /\ wk[v].pc = "del_commit" /\ wk[v].row.filename = wk[w].filename
     THEN [wk[v] EXCEPT !.resaved = TRUE]
     ELSE wk[v]]

UploadSave_row_first(w) ==
  /\ wk[w].pc = "up_save"
  /\ resources' = resources \cup {[new_resource(w) EXCEPT !.uid = nextUid]}
  /\ nextUid' = nextUid + 1
  /\ \/ /\ files' = files \cup {wk[w].filename}
        /\ Done(w, wk[w].session, "Committed")
     \/ /\ UNCHANGED files
        /\ Done(w, wk[w].session, "StorageFailure")
  /\ UNCHANGED << categories, admin, authedBy, deleted, probe >>

\* file.save(os.path.join(UPLOAD_FOLDER, filename)): writes the file, or raises
UploadSave(w) ==
  /\ wk[w].pc = "up_save"
  /\ \/ /\ wk[w].filename # <<>>
        /\ files' = files \cup {wk[w].filename}
        /\ nextUid' = nextUid + 1
        /\ wk' = [NoteResaved(w) EXCEPT
                    ![w] = [wk[w] EXCEPT !.pc = "up_commit", !.uid = nextUid]]
     \/ /\ UNCHANGED << files, nextUid >>
        /\ Done(w, wk[w].session, "StorageFailure")
  /\ UNCHANGED << categories, resources, admin, authedBy, deleted, probe >>

\* db.session.add(resource); db.session.commit() (app.py:158-167).  SQLite
\* does not enforce the foreign key (PRAGMA foreign_keys is off by default)
UploadCommit(w) ==
  /\ wk[w].pc = "up_commit"
  /\ resources' = resources \cup {new_resource(w)}
  /\ deleted' = {IF d.id = new_resource(w).id THEN [d EXCEPT !.reused = TRUE] ELSE d
                   : d \in deleted}
  /\ Done(w, wk[w].session, "Committed")
  /\ UNCHANGED << categories, files, admin, authedBy, nextUid, probe >>

\* ------------------------------------------------------------------------
\* Deletion (app.py:179-192)
\* ------------------------------------------------------------------------

\* the admin gate and Resource.query.get_or_404
DeleteLookup(w, s, id) ==
  /\ Ready(w, s)
  /\ IF ~session_admin(s) THEN Done(w, s, "RedirectLogin")
     ELSE IF get_resource(id) = {} THEN Done(w, s, "NotFound")
     ELSE Goto(w, "del_file",
               [Idle EXCEPT !.session = s,
                            !.row = CHOOSE r \in get_resource(id) : TRUE])
  /\ UNCHANGED << categories, resources, files, admin, authedBy, nextUid,
                  deleted, probe >>

DeleteFile_row_first(w) ==
  /\ wk[w].pc = "del_file"
  /\ resources' = {r \in resources : r.id # wk[w].row.id}
  /\ \/ /\ files' = files \ {wk[w].row.filename}
        /\ Done(w, wk[w].session, "Deleted")
     \/ /\ wk[w].row.filename \in files
        /\ UNCHANGED files
        /\ Done(w, wk[w].session, "RemoveError")
  /\ UNCHANGED << categories, admin, authedBy, nextUid, deleted, probe >>

\* if os.path.exists(file_path): os.remove(file_path) -- removes, or raises
DeleteFile(w) ==
  /\ wk[w].pc = "del_file"
  /\ IF wk[w].row.filename \in files
     THEN \/ /\ files' = files \ {wk[w].row.filename}
             /\ Goto(w, "del_commit", [wk[w] EXCEPT !.existed = TRUE])
          \/ /\ UNCHANGED files
             /\ Done(w, wk[w].session, "RemoveError")
     ELSE /\ UNCHANGED files
          /\ Goto(w, "del_commit", wk[w])
  /\ UNCHANGED << categories, resources, admin, authedBy, nextUid, deleted,
                  probe >>

delete_row_noop(rows, row) == rows

\* db.session.delete(resource): DELETE FROM resource WHERE id = :id
delete_row(rows, row) == {r \in rows : r.id # row.id}

\* db.session.delete(resource); db.session.commit()
DeleteCommit(w) ==
  /\ wk[w].pc = "del_commit"
  /\ resources' = delete_row(resources, wk[w].row)
  /\ deleted' = deleted \cup
       {[ uid |-> wk[w].row.uid, id |-> wk[w].row.id, reused |-> FALSE ]}
  /\ Done(w, wk[w].session, "Deleted")
  /\ UNCHANGED << categories, files, admin, authedBy, nextUid, probe >>

\* ------------------------------------------------------------------------
\* Environment
\* ------------------------------------------------------------------------

\* somebody removes a file from the upload folder, between two requests
ExternalRemove(f) ==
  /\ f \in files
  /\ \A w \in W : ~Handling(w)
  /\ files' = files \ {f}
  /\ UNCHANGED << categories, resources, admin, authedBy, wk, nextUid, deleted,
                  probe >>

\* the steps of the application: nothing else touches the store or the folder
NextApp ==
  \/ \E w \in W : Boot(w)
  \/ \E w \in W : SeedCommit(w)
  \/ \E w \in W : Restart(w)
  \/ \E w \in W : Respond(w)
  \/ \E w \in W, cat \in CategoryFilters : Index(w, cat)
  \/ \E w \in W, id \in ResourceIds : Download(w, id)
  \/ \E w \in W, id \in ResourceIds : View(w, id)
  \/ \E w \in W, s \in Sessions, password \in Passwords : AdminLogin(w, s, password)
  \/ \E w \in W, s \in Sessions : AdminLogout(w, s)
  \/ \E w \in W, s \in Sessions, type \in TypeFilters : AdminGet(w, s, type)
  \/ \E w \in W, s \in Sessions, name \in CategoryNames : AdminCreateCategory(w, s, name)
  \/ \E w \in W : CreateCategoryCommit(w)
  \/ \E w \in W, s \in Sessions, form \in UploadForms :
        AdminUpload(w, s, form[1], form[2], form[3])
  \/ \E w \in W : UploadSave(w)
  \/ \E w \in W : UploadCommit(w)
  \/ \E w \in W, s \in Sessions, id \in ResourceIds : DeleteLookup(w, s, id)
  \/ \E w \in W : DeleteFile(w)
  \/ \E w \in W : DeleteCommit(w)

Next == NextApp

Spec == Init /\ [][Next]_vars

\* the application in an environment that removes files from the upload folder
NextEnv == NextApp \/ \E f \in files : ExternalRemove(f)

SpecEnv == Init /\ [][NextEnv]_vars

\* ------------------------------------------------------------------------
\* The utility functions on their own: allowed_file, get_file_type_from_ext
\* and the checks of the upload branch, applied to one filename
\* ------------------------------------------------------------------------

\* str.upper() on one character
UpperChar(c) ==
  IF \E i \in DOMAIN LowerChars : LowerChars[i] = c
  THEN UpperChars[CHOOSE i \in DOMAIN LowerChars : LowerChars[i] = c]
  ELSE c

\* s in every mix of upper and lower case
RECURSIVE CaseVariants(_)
CaseVariants(s) ==
  IF s = <<>> THEN {<<>>}
  ELSE {<<c>> \o t : c \in {Head(s), UpperChar(Head(s))}, t \in CaseVariants(Tail(s))}

ProbeStems ==
  { <<>>, <<"a">>, <<"a",".","t","a","r">>, <<"U+65E5","U+65E5">>, <<"d","i","r","/","a"," ","b">> }

ProbeExts ==
  UNION {CaseVariants(e) : e \in DOMAIN ALLOWED_EXTENSIONS} \cup
  { <<>>, <<"e","x","e">>, <<"E","X","E">>, <<"p","d">>, <<"p","d","f","x">>,
    <<"p","d","f"," ">>, <<"j","p","U+00E9","g">>, <<"t","x","t">> }

ProbeNames ==
  {stem \o <<".">> \o ext : stem \in ProbeStems, ext \in ProbeExts} \cup
  { Readme, <<"p","d","f">>, <<"P","N","G">>, <<>> }

\* the argument the upload branch passes to get_file_type_from_ext is the
\* suffix after the last '.'; a name without '.' is passed whole
ProbeExt(name) == IF HasDot(name) THEN rsplit_ext(name) ELSE name

InitUtil ==
  /\ categories = {}
  /\ resources = {}
  /\ files = {}
  /\ admin = [s \in Sessions |-> FALSE]
  /\ wk = [w \in W |-> [Idle EXCEPT !.pc = "boot"]]
  /\ authedBy = [s \in Sessions |-> ""]
  /\ nextUid = 1
  /\ deleted = {}
  /\ probe \in {[NoProbe EXCEPT !.name = n] : n \in ProbeNames}

ProbeAllowed ==
  /\ probe.step = ""
  /\ probe' = [probe EXCEPT !.step = "allowed_file",
                            !.result = IF allowed_file(probe.name) THEN "True" ELSE "False"]
  /\ UNCHANGED << categories, resources, files, admin, wk, authedBy, nextUid, deleted >>

ProbeType ==
  /\ probe.step = ""
  /\ probe' = [probe EXCEPT !.step = "get_file_type_from_ext",
                            !.result = get_file_type_from_ext(ProbeExt(probe.name))]
  /\ UNCHANGED << categories, resources, files, admin, wk, authedBy, nextUid, deleted >>

ProbeUpload ==
  /\ probe.step = ""
  /\ probe' = [probe EXCEPT !.step = "upload_check",
                            !.result = upload_check("Report", <<1>>, <<probe.name>>)]
  /\ UNCHANGED << categories, resources, files, admin, wk, authedBy, nextUid, deleted >>

NextUtil == ProbeAllowed \/ ProbeType \/ ProbeUpload

SpecUtil == InitUtil /\ [][NextUtil]_vars

\* ========================================================================
\* Properties
\* ========================================================================

\* the allowed extensions as the specification lists them
SpecAllowedExts ==
  { <<"p","d","f">>, <<"j","p","g">>, <<"j","p","e","g">>, <<"p","n","g">>,
    <<"g","i","f">>, <<"w","e","b","p">>, <<"m","p","4">>, <<"a","v","i">>,
    <<"m","o","v">>, <<"m","k","v">>, <<"w","e","b","m">> }

\* the filename contains a '.' and the lowercased suffix after its last '.'
\* is an allowed extension
PassesExtensionCheck(filename) ==
  \E i \in DOMAIN filename :
    /\ filename[i] = "."
    /\ \A j \in (i + 1) .. Len(filename) : filename[j] # "."
    /\ lower(SubSeq(filename, i + 1, Len(filename))) \in SpecAllowedExts

StoreChanged ==
  categories' # categories \/ resources' # resources \/ files' # files

\* worker w takes a step of the request it is handling
RequestStep(w) == Handling(w) /\ wk'[w] # wk[w]

\* C1: the categories, the Resource rows and the stored files change only in
\* a step of a request of a session whose admin flag is set (or in the seeding
\* of a process start, which is no request); the flag becomes set only by a
\* login whose password is ADMIN_PASSWORD, a login with another password
\* leaves an unset flag unset, and logout unsets it.
C1_AdminGate ==
  [][ /\ StoreChanged =>
           \/ \E w \in W : RequestStep(w) /\ admin[wk[w].session]
           \/ \E w \in W : wk[w].pc = "seed_commit" /\ wk'[w] # wk[w]
      /\ \A s \in Sessions :
           admin'[s] # admin[s] =>
             /\ (~admin[s] /\ admin'[s]) => \E w \in W : AdminLogin(w, s, ADMIN_PASSWORD)
             /\ \A w \in W, pw \in Passwords \ {ADMIN_PASSWORD} :
                  (AdminLogin(w, s, pw) /\ ~admin[s]) => ~admin'[s]
             /\ \A w \in W : AdminLogout(w, s) => ~admin'[s]
    ]_vars

\* C1 witness: rows exist, one session is logged in, and a request of a
\* session that is not logged in has been turned away to the login page
C1_Witness ==
  /\ resources # {}
  /\ \E s \in Sessions : admin[s]
  /\ \E w \in W : /\ wk[w].pc = "respond"
                  /\ wk[w].outcome = "RedirectLogin"
                  /\ ~admin[wk[w].session]

RejectedForm(title, category_id, file) ==
  \/ title = "" \/ category_id = Absent \/ file = Absent
  \/ ~PassesExtensionCheck(file[1])

RejectedForms ==
  {form \in UploadForms : RejectedForm(form[1], form[2], form[3])}

\* C3: an upload_resource request in which title, category or file is
\* missing, or whose filename does not pass the allowed-extension check, ends
\* in the step that checks it, with the Resource rows and the stored files
\* as they were.
C3_RejectedUploadChangesNothing ==
  [][ \A w \in W, s \in Sessions, form \in RejectedForms :
        (wk[w].pc = "idle" /\ wk'[w].pc # "idle" /\ wk'[w].session = s
           /\ AdminUpload(w, s, form[1], form[2], form[3])) =>
             /\ resources' = resources
             /\ files' = files
             /\ wk'[w].pc = "respond"
             /\ admin[s] => wk'[w].outcome \in {"MissingField", "InvalidExtension"}
    ]_vars

\* C3 witness: with a row and a file in place, an upload without a title and
\* an upload of malware.exe have both been rejected
C3_Witness ==
  /\ resources # {} /\ files # {}
  /\ \E w \in W : wk[w].pc = "respond" /\ wk[w].outcome = "MissingField"
  /\ \E w \in W : wk[w].pc = "respond" /\ wk[w].outcome = "InvalidExtension"

\* C6: the store never holds two categories named "Général", however the
\* process starts overlap, and a process start that finds a category creates
\* none.
C6_IdempotentSeeding ==
  /\ [](Cardinality({c \in categories : c.name = General}) <= 1)
  /\ [][ \A w \in W :
           (wk[w].pc = "boot" /\ wk'[w] # wk[w] /\ categories # {}) =>
              wk'[w].pc = "idle" /\ categories' = categories
       ]_vars

\* C6 witness: two process starts overlapped, both found the table empty,
\* one seeded the category and the other failed on the UNIQUE constraint
C6_Witness ==
  /\ \E w \in W : wk[w].pc = "crashed"
  /\ Cardinality({c \in categories : c.name = General}) = 1

\* C4 as claimed: once a delete of r has completed, r is in no listing and
\* every view or download of r's id yields NotFound, ever after.
C4_DeletedIdNeverServedAgain ==
  \A d \in deleted :
    /\ \A r \in index(Absent) \cup admin_listing(Absent) : r.uid # d.uid
    /\ view(d.id) = "NotFound"
    /\ download(d.id) = "NotFound"

\* C4 as amended: once an authenticated delete of an existing Resource r has
\* completed, r is in no public or admin listing ever after, and view and
\* download of r's id yield NotFound for as long as no later upload has been
\* given that id; the file step of the delete leaves no file under r's
\* filename, whether or not there was one, the delete then succeeds and
\* removes the row, and when it completes no file is stored under r's
\* filename unless an upload has stored one since the file step.  A delete
\* of an unknown id yields NotFound and changes nothing.
C4_Deletion ==
  /\ [](\A d \in deleted :
          /\ \A r \in index(Absent) \cup admin_listing(Absent) : r.uid # d.uid
          /\ \A f \in CategoryFilters : \A r \in index(f) : r.uid # d.uid
          /\ \A f \in TypeFilters : \A r \in admin_listing(f) : r.uid # d.uid
          /\ ~d.reused => view(d.id) = "NotFound" /\ download(d.id) = "NotFound")
  /\ [][ \A w \in W :
           /\ (wk[w].pc = "del_file" /\ wk'[w].pc = "del_commit") =>
                 wk[w].row.filename \notin files'
           /\ (wk[w].pc = "del_commit" /\ wk'[w].pc # "del_commit") =>
                 /\ wk'[w].pc = "respond" /\ wk'[w].outcome = "Deleted"
                 /\ \A r \in resources' : r.id # wk[w].row.id
                 /\ wk[w].row.filename \notin files' \/ wk[w].resaved
           /\ \A s \in Sessions, id \in ResourceIds :
                (wk[w].pc = "idle" /\ wk'[w].pc # "idle" /\ admin[s]
                   /\ get_resource(id) = {} /\ DeleteLookup(w, s, id)) =>
                     /\ wk'[w].pc = "respond" /\ wk'[w].outcome = "NotFound"
                     /\ ~StoreChanged
       ]_vars

\* C4 witness: one delete has completed and its id is not served; another
\* delete has found its file already absent and is about to remove the row
C4_Witness ==
  /\ \E d \in deleted : ~d.reused /\ view(d.id) = "NotFound"
  /\ \E w \in W : wk[w].pc = "del_commit" /\ ~wk[w].existed

\* C5: every Resource row whose category exists is in the unfiltered public
\* listing and in the listing filtered by its category, and view and
\* download of its id return a file (no file is removed from the folder by
\* anything other than the application).
C5_CommittedStaysRetrievable ==
  \A r \in resources :
    (\E c \in categories : c.id = r.category_id) =>
       /\ r \in index(Absent)
       /\ r \in index(<<r.category_id>>)
       /\ view(r.id) = "File"
       /\ download(r.id) = "File"

\* C7: the category reference of every Resource row is the id of an existing
\* Category.
C7_ReferentialIntegrity ==
  \A r \in resources : \E c \in categories : c.id = r.category_id

\* C8: allowed_file(filename) is true iff the filename has a '.' and the
\* lowercased suffix after its last '.' is an allowed extension;
\* get_file_type_from_ext returns, for such a suffix in any letter case, the
\* media type ALLOWED_EXTENSIONS maps it to, and None for any other suffix;
\* the checks of the upload branch never end in UnsupportedType.
C8_ClassifierAgreement ==
  /\ probe.step = "allowed_file" =>
       (probe.result = "True" <=> PassesExtensionCheck(probe.name))
  /\ probe.step = "get_file_type_from_ext" =>
       probe.result =
         IF lower(ProbeExt(probe.name)) \in SpecAllowedExts
         THEN ALLOWED_EXTENSIONS[lower(ProbeExt(probe.name))]
         ELSE None
  /\ probe.step = "upload_check" => probe.result # "UnsupportedType"

\* C8 witness: an allowed extension in mixed case has been classified
C8_Witness ==
  /\ probe.step = "get_file_type_from_ext"
  /\ probe.name = <<"a", ".", "W", "e", "B", "p">>
  /\ probe.result = "image"

\* C9: the stored filename of every Resource row still has a '.' followed by
\* the extension of the original filename, and the row's media type is the
\* classification of the stored filename's extension.
C9_MediaTypeMatchesStoredFile ==
  \A r \in resources :
    /\ HasDot(r.filename)
    /\ lower(rsplit_ext(r.filename)) = r.ext
    /\ r.file_type = get_file_type_from_ext(rsplit_ext(r.filename))

\* C10: the file step comes before the record step and leaves the Resource
\* table as it is, whether it fails or not: rows are added only by an upload
\* that has saved its file, a failed save ends the request, rows are removed
\* only by a delete that is past its file step, and a failed removal ends
\* the request with the row still in the table.
C10_FileStepBeforeRecordStep ==
  [][ /\ \A w \in W :
           /\ (wk[w].pc = "up_save" /\ wk'[w].pc # "up_save") =>
                 /\ resources' = resources
                 /\ \/ wk'[w].pc = "up_commit" /\ wk[w].filename \in files'
                    \/ /\ wk'[w].pc = "respond" /\ wk'[w].outcome = "StorageFailure"
                       /\ files' = files
           /\ (wk[w].pc = "del_file" /\ wk'[w].pc # "del_file") =>
                 /\ resources' = resources
                 /\ \/ wk'[w].pc = "del_commit" /\ wk[w].row.filename \notin files'
                    \/ /\ wk'[w].pc = "respond" /\ wk'[w].outcome = "RemoveError"
                       /\ files' = files
      /\ resources' \ resources # {} =>
           \E w \in W : wk[w].pc = "up_commit" /\ wk'[w].outcome = "Committed"
      /\ resources \ resources' # {} =>
           \E w \in W : wk[w].pc = "del_commit" /\ wk'[w].outcome = "Deleted"
    ]_vars

\* C10 witness: a save has failed and a removal has failed, and the row of
\* the failed removal is still there to be deleted again
C10_Witness ==
  /\ \E w \in W : wk[w].pc = "respond" /\ wk[w].outcome = "StorageFailure"
  /\ \E w \in W : wk[w].pc = "respond" /\ wk[w].outcome = "RemoveError"
  /\ resources # {}

====
